---- MODULE Spec2Model ----
(***************************************************************************)
(* Model of the ir-explorer backend (backend/app/db/controller.py and      *)
(* backend/app/db/__init__.py): the relational store of corpora, datasets, *)
(* documents, queries and QRels, the request handlers of DBController and  *)
(* the transaction boundary provide_transaction.  Spec runs one request at *)
(* a time; ConcSpec runs concurrent requests statement by statement.       *)
(*                                                                         *)
(* A row's surrogate key is represented by the row's natural key: a corpus *)
(* by its name, a dataset by (corpus, name).  Names are unique and never   *)
(* updated, so the two are in bijection.                                   *)
(***************************************************************************)
EXTENDS Integers, Sequences, FiniteSets, TLC

VARIABLES
    db,     \* the committed tables: corpora, datasets, documents, queries, qrels
    resp,   \* the response in flight to the caller: op, status, args, out
    before, \* the committed tables when the request being answered arrived
    tx      \* the open transactions of concurrent requests: statement reached, writes

vars == <<db, resp, before, tx>>

----------------------------------------------------------------------------
(* Bounds of the model *)

MaxBatch == 2       \* records per bulk insert
MaxDatasets == 2    \* dataset rows in the store
MaxDocuments == 2   \* document rows in the store
MaxQueries == 2     \* query rows in the store
MaxQRels == 2       \* QRel rows in the store
MaxRows == 6        \* dataset, document, query and QRel rows together
MaxOffset == 2      \* largest offset a listing is asked for
MaxTx == 2          \* requests in flight at the same time

(* Input alphabets *)

CorpusNames == {"c1", "c2"}
DatasetNames == {"s1", "s2"}
DocIds == {"d1", "d2"}
QueryIds == {"q1", "q2"}
Relevances == {1, 2}
MinRelevances == {1, 2}
\* pg_catalog.pg_ts_config: the installed full-text configurations
Languages == {"english", "simple"}
\* the languages requests name: an installed one and one that is not installed
LanguageInputs == {"english", "klingon"}
\* texts are sequences of words
DocTexts == {<<"fox">>}
QueryTexts == {<<"fox">>}
SearchTerms == {"fox", "dog"}

\* an absent optional string argument
NULL == "NULL"
\* an optional integer is a sequence of length at most one: None is <<>>
None == <<>>
Some(n) == <<n>>

----------------------------------------------------------------------------
(* Helpers over sequences and sets *)

Range(s) == {s[i] : i \in 1..Len(s)}

SeqsUpTo(S, n) == UNION {[1..k -> S] : k \in 1..n}

\* all orderings of a finite set, as sequences
Perms(S) ==
    {p \in [1..Cardinality(S) -> S] : \A i, j \in 1..Cardinality(S) : p[i] = p[j] => i = j}

\* SQL OFFSET / LIMIT applied to an ordered result
Page(rows, num_results, offset) ==
    LET last == IF num_results = None THEN Len(rows)
                ELSE IF offset + num_results[1] < Len(rows) THEN offset + num_results[1]
                ELSE Len(rows)
    IN  SubSeq(rows, offset + 1, last)

----------------------------------------------------------------------------
(* The schema (db/schema.py): keys, NOT NULL columns, foreign keys *)

\* corpus.name is unique
CorpusNameTaken(d, name) == \E c \in d.corpora : c.name = name

\* corpus.language is a full-text configuration of the engine
LanguageSupported(language) == language \in Languages

\* dataset is unique on (corpus, name)
DatasetKeyTaken(d, corpus, name) ==
    \E s \in d.datasets : s.corpus = corpus /\ s.name = name

\* some position of a batch repeats an earlier key of the batch
BatchRepeatsKey(keys) == \E i, j \in 1..Len(keys) : i # j /\ keys[i] = keys[j]

\* document is unique on (corpus, id)
DocumentKeyTaken(d, corpus, id) ==
    \E x \in d.documents : x.corpus = corpus /\ x.id = id

\* query is unique on (dataset, id)
QueryKeyTaken(d, corpus, dataset, id) ==
    \E q \in d.queries : q.corpus = corpus /\ q.dataset = dataset /\ q.id = id

\* QRel is unique on (query, document) within a dataset
QRelKeyTaken(d, corpus, dataset, query_id, document_id) ==
    \E r \in d.qrels : /\ r.corpus = corpus /\ r.dataset = dataset
                       /\ r.query_id = query_id /\ r.document_id = document_id

\* QRel (query_id, dataset) references a query; (document_id, corpus) a document
QRelReferencesOK(d, corpus, dataset, query_id, document_id) ==
    /\ QueryKeyTaken(d, corpus, dataset, query_id)
    /\ DocumentKeyTaken(d, corpus, document_id)

\* rows that still reference a query / dataset / document / corpus block its delete
QueryReferenced(d, q) ==
    \E r \in d.qrels : r.corpus = q.corpus /\ r.dataset = q.dataset /\ r.query_id = q.id

DatasetReferenced(d, s) ==
    \/ \E q \in d.queries : q.corpus = s.corpus /\ q.dataset = s.name
    \/ \E r \in d.qrels : r.corpus = s.corpus /\ r.dataset = s.name

DocumentReferenced(d, x) ==
    \E r \in d.qrels : r.corpus = x.corpus /\ r.document_id = x.id

CorpusReferenced(d, c) ==
    \/ \E s \in d.datasets : s.corpus = c.name
    \/ \E x \in d.documents : x.corpus = c.name

----------------------------------------------------------------------------
(* Statements.  Each returns [exc, db]: the exception the engine raises    *)
(* ("none" when the statement succeeds) and the tables after it.  A failed *)
(* statement changes nothing.                                              *)

Ok(d) == [exc |-> "none", db |-> d]
Raise(e, d) == [exc |-> e, db |-> d]

\* select(ORMCorpus).where(ORMCorpus.name == corpus_name): the rows selected;
\* as a scalar subquery an empty selection is NULL
corpus_cte(d, corpus_name) == {c \in d.corpora : c.name = corpus_name}

\* a lookup of the dataset by its name alone
dataset_cte_by_name(d, dataset_name, corpus_name) ==
    LET rows == {s \in d.datasets : s.name = dataset_name}
    IN  IF rows = {} THEN {} ELSE {CHOOSE s \in rows : TRUE}

\* select(ORMDataset).join(ORMCorpus).where(name = dataset_name, corpus = corpus_name)
dataset_cte(d, dataset_name, corpus_name) ==
    {s \in d.datasets : s.name = dataset_name /\ s.corpus = corpus_name}

TheRow(rows) == CHOOSE r \in rows : TRUE

\* insert(ORMCorpus).values({name, language})
ExecInsertCorpus(d, name, language) ==
    IF ~LanguageSupported(language) THEN Raise("ProgrammingError", d)
    ELSE IF CorpusNameTaken(d, name) THEN Raise("IntegrityError", d)
    ELSE Ok([d EXCEPT !.corpora = @ \cup {[name |-> name, language |-> language]}])

\* an insert whose corpus_id subquery is not filtered by the corpus name
ExecInsertDatasetAnyCorpus(d, name, corpus_name, min_relevance) ==
    LET corpus == IF d.corpora = {} THEN {} ELSE {CHOOSE c \in d.corpora : TRUE} IN
    IF corpus = {} THEN Raise("IntegrityError", d)
    ELSE IF DatasetKeyTaken(d, TheRow(corpus).name, name) THEN Raise("IntegrityError", d)
    ELSE Ok([d EXCEPT !.datasets = @ \cup
                {[corpus |-> TheRow(corpus).name, name |-> name,
                  min_relevance |-> min_relevance]}])

\* insert(ORMDataset).values({name, corpus_id: select(ORMCorpus.id)..., min_relevance})
ExecInsertDataset(d, name, corpus_name, min_relevance) ==
    LET corpus == corpus_cte(d, corpus_name) IN
    IF corpus = {} THEN Raise("IntegrityError", d)
    ELSE IF DatasetKeyTaken(d, TheRow(corpus).name, name) THEN Raise("IntegrityError", d)
    ELSE Ok([d EXCEPT !.datasets = @ \cup
                {[corpus |-> TheRow(corpus).name, name |-> name,
                  min_relevance |-> min_relevance]}])

\* insert(ORMQuery).values([... for q in data]): one multi-row statement
ExecInsertQueries(d, dataset_name, corpus_name, data) ==
    LET dataset == dataset_cte(d, dataset_name, corpus_name) IN
    IF dataset = {} THEN Raise("IntegrityError", d)
    ELSE IF \/ \E i \in 1..Len(data) :
                  QueryKeyTaken(d, TheRow(dataset).corpus, TheRow(dataset).name, data[i].id)
            \/ BatchRepeatsKey([i \in 1..Len(data) |-> data[i].id])
    THEN Raise("IntegrityError", d)
    ELSE Ok([d EXCEPT !.queries = @ \cup
                {[corpus |-> TheRow(dataset).corpus, dataset |-> TheRow(dataset).name,
                  id |-> data[i].id, text |-> data[i].text] : i \in 1..Len(data)}])

\* an insert that skips the rows whose key is taken (ON CONFLICT DO NOTHING)
ExecInsertDocumentsSkipConflicts(d, corpus_name, data) ==
    LET corpus == corpus_cte(d, corpus_name) IN
    IF corpus = {} THEN Raise("IntegrityError", d)
    ELSE LET fresh == {i \in 1..Len(data) :
                          /\ ~DocumentKeyTaken(d, corpus_name, data[i].id)
                          /\ \A j \in 1..(i - 1) : data[j].id # data[i].id}
             d2 == [d EXCEPT !.documents = @ \cup
                      {[corpus |-> corpus_name, id |-> data[i].id, text |-> data[i].text,
                        language |-> TheRow(corpus).language] : i \in fresh}]
         IN  Ok(d2)

\* an insert that gives every document the default language instead of its corpus's
ExecInsertDocumentsDefaultLanguage(d, corpus_name, data) ==
    LET corpus == corpus_cte(d, corpus_name) IN
    IF corpus = {} THEN Raise("IntegrityError", d)
    ELSE IF \/ \E i \in 1..Len(data) :
                  DocumentKeyTaken(d, TheRow(corpus).name, data[i].id)
            \/ BatchRepeatsKey([i \in 1..Len(data) |-> data[i].id])
    THEN Raise("IntegrityError", d)
    ELSE Ok([d EXCEPT !.documents = @ \cup
                {[corpus |-> TheRow(corpus).name, id |-> data[i].id,
                  text |-> data[i].text,
                  language |-> "english"] : i \in 1..Len(data)}])

\* insert(ORMDocument).values([... for doc in data]): one multi-row statement
ExecInsertDocuments(d, corpus_name, data) ==
    LET corpus == corpus_cte(d, corpus_name) IN
    IF corpus = {} THEN Raise("IntegrityError", d)
    ELSE IF \/ \E i \in 1..Len(data) :
                  DocumentKeyTaken(d, TheRow(corpus).name, data[i].id)
            \/ BatchRepeatsKey([i \in 1..Len(data) |-> data[i].id])
    THEN Raise("IntegrityError", d)
    ELSE Ok([d EXCEPT !.documents = @ \cup
                {[corpus |-> TheRow(corpus).name, id |-> data[i].id,
                  text |-> data[i].text,
                  language |-> TheRow(corpus).language] : i \in 1..Len(data)}])

\* an insert of QRels whose references to query and document are not enforced
ExecInsertQRelsUnreferenced(d, dataset_name, corpus_name, data) ==
    LET dataset == dataset_cte(d, dataset_name, corpus_name) IN
    IF dataset = {} THEN Raise("IntegrityError", d)
    ELSE IF \/ \E i \in 1..Len(data) :
                  QRelKeyTaken(d, TheRow(dataset).corpus, TheRow(dataset).name,
                               data[i].query_id, data[i].document_id)
            \/ BatchRepeatsKey([i \in 1..Len(data) |->
                                   <<data[i].query_id, data[i].document_id>>])
    THEN Raise("IntegrityError", d)
    ELSE Ok([d EXCEPT !.qrels = @ \cup
                {[corpus |-> TheRow(dataset).corpus, dataset |-> TheRow(dataset).name,
                  query_id |-> data[i].query_id, document_id |-> data[i].document_id,
                  relevance |-> data[i].relevance] : i \in 1..Len(data)}])

\* insert(ORMQRel).values([... for qrel in data]): one multi-row statement
ExecInsertQRels(d, dataset_name, corpus_name, data) ==
    LET dataset == dataset_cte(d, dataset_name, corpus_name) IN
    IF dataset = {} THEN Raise("IntegrityError", d)
    ELSE IF \/ \E i \in 1..Len(data) :
                  \/ QRelKeyTaken(d, TheRow(dataset).corpus, TheRow(dataset).name,
                                  data[i].query_id, data[i].document_id)
                  \/ ~QRelReferencesOK(d, TheRow(dataset).corpus, TheRow(dataset).name,
                                       data[i].query_id, data[i].document_id)
            \/ BatchRepeatsKey([i \in 1..Len(data) |->
                                   <<data[i].query_id, data[i].document_id>>])
    THEN Raise("IntegrityError", d)
    ELSE Ok([d EXCEPT !.qrels = @ \cup
                {[corpus |-> TheRow(dataset).corpus, dataset |-> TheRow(dataset).name,
                  query_id |-> data[i].query_id, document_id |-> data[i].document_id,
                  relevance |-> data[i].relevance] : i \in 1..Len(data)}])

\* delete_(ORMQRel).filter_by(dataset_id=dataset_id); dataset_id is the scalar
\* subquery's selection, NULL (no row deleted) when it is empty
sql_del_qrels(d, dataset_id) ==
    Ok([d EXCEPT !.qrels =
           {r \in @ : ~\E s \in dataset_id : r.corpus = s.corpus /\ r.dataset = s.name}])

\* delete_(ORMQuery).filter_by(dataset_id=dataset_id)
sql_del_queries(d, dataset_id) ==
    LET gone == {q \in d.queries :
                    \E s \in dataset_id : q.corpus = s.corpus /\ q.dataset = s.name}
    IN  IF \E q \in gone : QueryReferenced(d, q) THEN Raise("IntegrityError", d)
        ELSE Ok([d EXCEPT !.queries = @ \ gone])

\* delete_(ORMDataset).filter_by(id=dataset_id)
sql_del_dataset(d, dataset_id) ==
    IF \E s \in dataset_id : DatasetReferenced(d, s) THEN Raise("IntegrityError", d)
    ELSE Ok([d EXCEPT !.datasets = @ \ dataset_id])

\* delete_(ORMDocument).filter_by(corpus_id=corpus.id)
sql_del_documents(d, corpus) ==
    LET gone == {x \in d.documents : x.corpus = corpus.name} IN
    IF \E x \in gone : DocumentReferenced(d, x) THEN Raise("IntegrityError", d)
    ELSE Ok([d EXCEPT !.documents = @ \ gone])

\* delete_(ORMCorpus).filter_by(id=corpus.id)
sql_del_corpus(d, corpus) ==
    IF CorpusReferenced(d, corpus) THEN Raise("IntegrityError", d)
    ELSE Ok([d EXCEPT !.corpora = @ \ {corpus}])

----------------------------------------------------------------------------
(* Handlers of DBController, on the tables d of the request's transaction. *)
(* Each returns [exc, db, out]: the exception that leaves the handler      *)
(* ("none" on a normal return), the tables written so far, the value       *)
(* returned.                                                               *)

NoOut == [total |-> 0, items |-> <<>>]

Return(d, out) == [exc |-> "none", db |-> d, out |-> out]
Throw(e, d) == [exc |-> e, db |-> d, out |-> NoOut]

create_corpus(d, name, language) ==
    LET r == ExecInsertCorpus(d, name, language) IN
    IF r.exc \in {"IntegrityError", "ProgrammingError"} THEN Throw("HTTPException409", r.db)
    ELSE Return(r.db, NoOut)

create_dataset(d, name, corpus_name, min_relevance) ==
    LET r == ExecInsertDataset(d, name, corpus_name, min_relevance) IN
    IF r.exc = "IntegrityError" THEN Throw("HTTPException409", r.db)
    ELSE Return(r.db, NoOut)

add_queries(d, dataset_name, corpus_name, data) ==
    LET r == ExecInsertQueries(d, dataset_name, corpus_name, data) IN
    IF r.exc = "IntegrityError" THEN Throw("HTTPException409", r.db)
    ELSE Return(r.db, NoOut)

add_documents(d, corpus_name, data) ==
    LET r == ExecInsertDocuments(d, corpus_name, data) IN
    IF r.exc = "IntegrityError" THEN Throw("HTTPException409", r.db)
    ELSE Return(r.db, NoOut)

add_qrels(d, dataset_name, corpus_name, data) ==
    LET r == ExecInsertQRels(d, dataset_name, corpus_name, data) IN
    IF r.exc = "IntegrityError" THEN Throw("HTTPException409", r.db)
    ELSE Return(r.db, NoOut)

\* the scalar subquery dataset_id is evaluated by each statement that uses it;
\* an exception of a statement leaves the handler uncaught
remove_dataset(d, corpus_name, dataset_name) ==
    LET r1 == sql_del_qrels(d, dataset_cte(d, dataset_name, corpus_name))
        r2 == sql_del_queries(r1.db, dataset_cte(r1.db, dataset_name, corpus_name))
        r3 == sql_del_dataset(r2.db, dataset_cte(r2.db, dataset_name, corpus_name))
    IN  IF r1.exc # "none" THEN Throw(r1.exc, r1.db)
        ELSE IF r2.exc # "none" THEN Throw(r2.exc, r2.db)
        ELSE IF r3.exc # "none" THEN Throw(r3.exc, r3.db)
        ELSE Return(r3.db, NoOut)

\* the guard on the corpus's datasets left out
remove_corpus_unguarded(d, corpus_name) ==
    LET sql_corpus == corpus_cte(d, corpus_name) IN
    IF sql_corpus = {} THEN Throw("NoResultFound", d)
    ELSE LET corpus == TheRow(sql_corpus)
             d1 == [d EXCEPT !.documents = {x \in @ : x.corpus # corpus.name}]
         IN  Return([d1 EXCEPT !.corpora = @ \ {corpus}], NoOut)

remove_corpus(d, corpus_name) ==
    LET sql_corpus == corpus_cte(d, corpus_name) IN
    \* .unique().scalar_one()
    IF sql_corpus = {} THEN Throw("NoResultFound", d)
    ELSE LET corpus == TheRow(sql_corpus)
             corpus_datasets == {s \in d.datasets : s.corpus = corpus.name}
         IN  IF Cardinality(corpus_datasets) > 0 THEN Throw("HTTPException409", d)
             ELSE LET r1 == sql_del_documents(d, corpus)
                      r2 == sql_del_corpus(r1.db, corpus)
                  IN  IF r1.exc = "IntegrityError" THEN Throw("HTTPException409", r1.db)
                      ELSE IF r2.exc = "IntegrityError" THEN Throw("HTTPException409", r2.db)
                      ELSE Return(r2.db, NoOut)

----------------------------------------------------------------------------
(* Full-text primitives of the engine, as the handlers use them *)

\* the stemmer of a configuration: "english" folds plurals, "simple" does not
Stem(language, w) == IF language = "english" /\ w = "foxes" THEN "fox" ELSE w

to_tsvector(language, words) == [i \in 1..Len(words) |-> Stem(language, words[i])]

\* a one-word query
websearch_to_tsquery(language, q) == Stem(language, q)

\* text_tsv @@ ts_query
TsMatch(tsv, ts_query) == \E i \in 1..Len(tsv) : tsv[i] = ts_query

\* cover density of a one-word query: grows with the number of matched positions
ts_rank_cd(tsv, ts_query) == Cardinality({i \in 1..Len(tsv) : tsv[i] = ts_query})

\* the derived column ORMDocument.text_tsv
text_tsv(x) == to_tsvector(x.language, x.text)

\* ORMQuery.text.match(match), under the engine's default configuration
TextMatch(words, match) ==
    TsMatch(to_tsvector("english", words), websearch_to_tsquery("english", match))

----------------------------------------------------------------------------
(* Read handlers.  A query without a total ORDER BY may return its rows in *)
(* any order that respects the ORDER BY it has, so a read handler is the   *)
(* set of outcomes [exc, db, out] the engine can produce.                  *)

\* the datasets joined to a corpus row: dataset.corpus_id = corpus.id
DatasetsOf(d, corpus_name) == {s \in d.datasets : s.corpus = corpus_name}

\* the dataset a query or QRel row belongs to
DatasetOf(d, row) == {s \in d.datasets : s.corpus = row.corpus /\ s.name = row.dataset}

\* the orderings of a result set that respect Before (a total preorder)
Orderings(S, Before(_, _)) ==
    {p \in Perms(S) : \A i, j \in 1..Cardinality(S) : i < j => Before(p[i], p[j])}

AnyOrder(a, b) == TRUE

Paginated(rows, total, num_results, offset) ==
    [total |-> total, items |-> Page(rows, num_results, offset)]

\* get_corpora: corpus JOIN dataset GROUP BY corpus, with the number of joined
\* datasets; the result is a plain list, total is its length
get_corpora(d) ==
    LET result == {[name |-> c.name, language |-> c.language,
                    num_datasets |-> Cardinality(DatasetsOf(d, c.name))] :
                       c \in {c \in d.corpora : DatasetsOf(d, c.name) # {}}}
    IN  {Return(d, [total |-> Cardinality(result), items |-> p]) :
            p \in Orderings(result, AnyOrder)}

\* get_queries: the rows the count query counts
get_queries_rows(d, corpus_name, dataset_name, match) ==
    {q \in d.queries :
        /\ DatasetOf(d, q) # {}
        /\ corpus_cte(d, q.corpus) # {}
        /\ q.corpus = corpus_name
        /\ dataset_name # NULL => q.dataset = dataset_name
        /\ match # NULL => TextMatch(q.text, match)}

\* the relevant-QRel count without the threshold in the join
QueryItemNoThreshold(d, q) ==
    [id |-> q.id, corpus_name |-> q.corpus, dataset_name |-> q.dataset,
     num_relevant_documents |->
        Cardinality({r \in d.qrels :
            \E s \in DatasetOf(d, q) :
                /\ r.query_id = q.id
                /\ r.corpus = s.corpus /\ r.dataset = s.name})]

\* the page query's row for a query: the query with its relevant-QRel count
QueryItem(d, q) ==
    [id |-> q.id, corpus_name |-> q.corpus, dataset_name |-> q.dataset,
     num_relevant_documents |->
        Cardinality({r \in d.qrels :
            \E s \in DatasetOf(d, q) :
                /\ r.query_id = q.id
                /\ r.corpus = s.corpus /\ r.dataset = s.name
                /\ r.relevance >= s.min_relevance})]

get_queries(d, corpus_name, dataset_name, match, num_results, offset) ==
    LET rows == get_queries_rows(d, corpus_name, dataset_name, match)
        total_num_results == Cardinality(rows)
        result == {QueryItem(d, q) : q \in rows}
    IN  {Return(d, Paginated(p, total_num_results, num_results, offset)) :
            p \in Orderings(result, AnyOrder)}

\* get_query: the QRel join matches on the query id and the threshold
get_query(d, corpus_name, dataset_name, query_id) ==
    LET rows == {q \in d.queries :
                    /\ DatasetOf(d, q) # {}
                    /\ q.id = query_id /\ q.corpus = corpus_name
                    /\ q.dataset = dataset_name}
    IN  IF rows = {} THEN {Throw("HTTPException404", d)}
        ELSE {Return(d, [total |-> 1, items |->
                <<[id |-> q.id, corpus_name |-> corpus_name, dataset_name |-> dataset_name,
                   num_relevant_documents |->
                      Cardinality({r \in d.qrels :
                          \E s \in DatasetOf(d, q) :
                              /\ r.query_id = q.id
                              /\ r.relevance >= s.min_relevance})]>>]) : q \in rows}

\* get_document: document JOIN corpus JOIN dataset LEFT JOIN qrel ON the document id
\* and the threshold, grouped by document
get_document(d, corpus_name, document_id) ==
    LET rows == {x \in d.documents :
                    /\ corpus_cte(d, x.corpus) # {}
                    /\ DatasetsOf(d, x.corpus) # {}
                    /\ x.corpus = corpus_name /\ x.id = document_id}
    IN  IF rows = {} THEN {Throw("HTTPException404", d)}
        ELSE {Return(d, [total |-> 1, items |->
                <<[id |-> x.id, corpus_name |-> corpus_name,
                   num_relevant_queries |->
                      Cardinality({sr \in DatasetsOf(d, x.corpus) \X d.qrels :
                          /\ sr[2].document_id = x.id
                          /\ sr[2].relevance >= sr[1].min_relevance})]>>]) : x \in rows}

\* the page query's row for a document
DocumentItem(d, x) ==
    [id |-> x.id, corpus_name |-> x.corpus,
     num_relevant_queries |->
        Cardinality({sr \in DatasetsOf(d, x.corpus) \X d.qrels :
            /\ sr[2].document_id = x.id
            /\ sr[2].corpus = sr[1].corpus /\ sr[2].dataset = sr[1].name
            /\ sr[2].relevance >= sr[1].min_relevance})]

\* a total taken from the page instead of the count query
get_documents_page_total(d, corpus_name, num_results, offset) ==
    LET result == {DocumentItem(d, x) : x \in {x \in d.documents :
                      x.corpus = corpus_name /\ DatasetsOf(d, x.corpus) # {}}}
    IN  {Return(d, Paginated(p, Len(Page(p, num_results, offset)), num_results, offset)) :
            p \in Orderings(result, AnyOrder)}

get_documents(d, corpus_name, num_results, offset) ==
    LET total_num_results ==
            Cardinality({x \in d.documents :
                            corpus_cte(d, x.corpus) # {} /\ x.corpus = corpus_name})
        result == {DocumentItem(d, x) : x \in {x \in d.documents :
                      /\ corpus_cte(d, x.corpus) # {}
                      /\ DatasetsOf(d, x.corpus) # {}
                      /\ x.corpus = corpus_name}}
    IN  {Return(d, Paginated(p, total_num_results, num_results, offset)) :
            p \in Orderings(result, AnyOrder)}

\* ids are compared as strings: "d1" sorts before "d2"
IdLeq(a, b) == a = b \/ (a = "d1" /\ b = "d2")

\* order_by(desc("score")).order_by(ORMDocument.id)
SearchOrder(a, b) == a.score > b.score \/ (a.score = b.score /\ IdLeq(a.id, b.id))

search_documents(d, q, language, corpus_name, num_results, offset) ==
    IF ~LanguageSupported(language) THEN {Throw("ProgrammingError", d)}
    ELSE
    LET ts_query == websearch_to_tsquery(language, q)
        rows == {x \in d.documents :
                    /\ corpus_cte(d, x.corpus) # {}
                    /\ TsMatch(text_tsv(x), ts_query)
                    /\ corpus_name # {NULL} => x.corpus \in corpus_name}
        total_num_results == Cardinality(rows)
        results == {[id |-> x.id, corpus_name |-> x.corpus,
                     score |-> ts_rank_cd(text_tsv(x), ts_query)] : x \in rows}
    IN  {Return(d, Paginated(p, total_num_results, num_results, offset)) :
            p \in Orderings(results, SearchOrder)}

\* order_by(ORMQRel.relevance.desc())
QRelOrder(a, b) == a.relevance >= b.relevance

get_qrels(d, corpus_name, document_id, dataset_name, query_id, num_results, offset) ==
    LET rows == {r \in d.qrels :
                    /\ \E s \in DatasetOf(d, r) :
                          /\ corpus_cte(d, s.corpus) # {}
                          /\ s.corpus = corpus_name
                          /\ r.relevance >= s.min_relevance
                    /\ document_id # NULL => r.document_id = document_id
                    /\ dataset_name # NULL => r.dataset = dataset_name
                    /\ query_id # NULL => r.query_id = query_id}
        total_num_results == Cardinality(rows)
        result == {[query_id |-> r.query_id, document_id |-> r.document_id,
                    relevance |-> r.relevance, corpus_name |-> r.corpus,
                    dataset_name |-> r.dataset] : r \in rows}
    IN  {Return(d, Paginated(p, total_num_results, num_results, offset)) :
            p \in Orderings(result, QRelOrder)}

----------------------------------------------------------------------------
(* The transaction boundary and the response the caller sees *)

\* the framework's response to an exception that leaves the request
StatusOf(exc) ==
    CASE exc = "none" -> "OK"
      [] exc = "HTTPException409" -> "Conflict"
      [] exc = "HTTPException404" -> "NotFound"
      [] exc = "ClientException409" -> "Conflict"
      [] OTHER -> "InternalError"

\* a boundary that rolls back and lets the IntegrityError through as it is
provide_transaction_reraise(pre, h) ==
    IF h.exc = "none" THEN [status |-> StatusOf("none"), db |-> h.db, out |-> h.out]
    ELSE [status |-> StatusOf(h.exc), db |-> pre, out |-> h.out]

\* a boundary that commits the writes made so far when the handler raises
provide_transaction_commit(pre, h) ==
    IF h.exc = "none" THEN [status |-> StatusOf("none"), db |-> h.db, out |-> h.out]
    ELSE IF h.exc = "IntegrityError"
    THEN [status |-> StatusOf("ClientException409"), db |-> h.db, out |-> h.out]
    ELSE [status |-> StatusOf(h.exc), db |-> h.db, out |-> h.out]

\* async with db_session.begin(): commit on a normal exit, roll back on any
\* exception; an IntegrityError becomes ClientException(409)
provide_transaction(pre, h) ==
    IF h.exc = "none" THEN [status |-> StatusOf("none"), db |-> h.db, out |-> h.out]
    ELSE IF h.exc = "IntegrityError"
    THEN [status |-> StatusOf("ClientException409"), db |-> pre, out |-> h.out]
    ELSE [status |-> StatusOf(h.exc), db |-> pre, out |-> h.out]

Idle == resp.op = "none"

\* a request is handled to completion, from the arrival of the request to its response
Respond(op, args, t) ==
    /\ Idle
    /\ db' = t.db
    /\ resp' = [op |-> op, status |-> t.status, args |-> args, out |-> t.out]
    /\ before' = db
    /\ UNCHANGED tx

WithinBounds(d) ==
    /\ Cardinality(d.datasets) + Cardinality(d.documents)
         + Cardinality(d.queries) + Cardinality(d.qrels) <= MaxRows
    /\ Cardinality(d.datasets) <= MaxDatasets
    /\ Cardinality(d.documents) <= MaxDocuments
    /\ Cardinality(d.queries) <= MaxQueries
    /\ Cardinality(d.qrels) <= MaxQRels

----------------------------------------------------------------------------
(* Requests *)

DocumentInfos == [id : DocIds, text : DocTexts]
QueryInfos == [id : QueryIds, text : QueryTexts]
QRelInfos == [query_id : QueryIds, document_id : DocIds, relevance : Relevances]

Limits == {None, Some(1)}
Offsets == 0..MaxOffset
\* the corpus the listings are asked for
ListedCorpora == {"c1"}
\* the optional filters the listings are asked with: <<dataset_name, match>>,
\* <<document_id, dataset_name, query_id>> and the corpus_name list of a search
QueryFilters == {<<NULL, NULL>>, <<"s1", NULL>>, <<NULL, "dog">>}
QRelFilters == {<<NULL, NULL, NULL>>, <<"d1", NULL, NULL>>, <<NULL, "s1", NULL>>,
                <<NULL, NULL, "q1">>}
CorpusFilters == {{NULL}, {"c1"}}

CreateCorpusReq(name, language) ==
    Respond("create_corpus", [corpus_name |-> name],
            provide_transaction(db, create_corpus(db, name, language)))

CreateDatasetReq(name, corpus_name, min_relevance) ==
    LET t == provide_transaction(db, create_dataset(db, name, corpus_name, min_relevance))
    IN  /\ WithinBounds(t.db)
        /\ Respond("create_dataset", [corpus_name |-> corpus_name, dataset_name |-> name], t)

InsertQueriesReq(dataset_name, corpus_name, data) ==
    LET t == provide_transaction(db, add_queries(db, dataset_name, corpus_name, data))
    IN  /\ WithinBounds(t.db)
        /\ Respond("add_queries",
                   [corpus_name |-> corpus_name, dataset_name |-> dataset_name], t)

InsertDocumentsReq(corpus_name, data) ==
    LET t == provide_transaction(db, add_documents(db, corpus_name, data))
    IN  /\ WithinBounds(t.db)
        /\ Respond("add_documents", [corpus_name |-> corpus_name], t)

InsertQRelsReq(dataset_name, corpus_name, data) ==
    LET t == provide_transaction(db, add_qrels(db, dataset_name, corpus_name, data))
    IN  /\ WithinBounds(t.db)
        /\ Respond("add_qrels",
                   [corpus_name |-> corpus_name, dataset_name |-> dataset_name], t)

RemoveDatasetReq(corpus_name, dataset_name) ==
    Respond("remove_dataset", [corpus_name |-> corpus_name, dataset_name |-> dataset_name],
            provide_transaction(db, remove_dataset(db, corpus_name, dataset_name)))

RemoveCorpusReq(corpus_name) ==
    Respond("remove_corpus", [corpus_name |-> corpus_name],
            provide_transaction(db, remove_corpus(db, corpus_name)))

CreateCorpus == Idle /\ \E name \in CorpusNames, language \in LanguageInputs :
    CreateCorpusReq(name, language)

CreateDataset == Idle /\ \E name \in DatasetNames, corpus_name \in CorpusNames, m \in MinRelevances :
    CreateDatasetReq(name, corpus_name, m)

InsertQueries ==
    Idle /\ \E dataset_name \in DatasetNames, corpus_name \in CorpusNames,
       data \in SeqsUpTo(QueryInfos, MaxBatch) :
        InsertQueriesReq(dataset_name, corpus_name, data)

InsertDocuments ==
    Idle /\ \E corpus_name \in CorpusNames, data \in SeqsUpTo(DocumentInfos, MaxBatch) :
        InsertDocumentsReq(corpus_name, data)

InsertQRels ==
    Idle /\ \E dataset_name \in DatasetNames, corpus_name \in CorpusNames,
       data \in SeqsUpTo(QRelInfos, MaxBatch) :
        InsertQRelsReq(dataset_name, corpus_name, data)

RemoveDataset == Idle /\ \E corpus_name \in CorpusNames, dataset_name \in DatasetNames :
    RemoveDatasetReq(corpus_name, dataset_name)

RemoveCorpus == Idle /\ \E corpus_name \in CorpusNames : RemoveCorpusReq(corpus_name)

GetQuery ==
    Idle /\ \E corpus_name \in CorpusNames, dataset_name \in DatasetNames, query_id \in QueryIds :
        \E h \in get_query(db, corpus_name, dataset_name, query_id) :
            Respond("get_query",
                    [corpus_name |-> corpus_name, dataset_name |-> dataset_name,
                     query_id |-> query_id],
                    provide_transaction(db, h))

GetDocument ==
    Idle /\ \E corpus_name \in CorpusNames, document_id \in DocIds :
        \E h \in get_document(db, corpus_name, document_id) :
            Respond("get_document",
                    [corpus_name |-> corpus_name, document_id |-> document_id],
                    provide_transaction(db, h))

ListCorpora ==
    Idle /\ \E h \in get_corpora(db) :
        Respond("get_corpora", [corpus_name |-> NULL], provide_transaction(db, h))

ListQueries ==
    Idle /\ \E corpus_name \in ListedCorpora, f \in QueryFilters,
               num_results \in Limits, offset \in Offsets :
        \E h \in get_queries(db, corpus_name, f[1], f[2], num_results, offset) :
            Respond("get_queries",
                    [corpus_name |-> corpus_name, dataset_name |-> f[1],
                     match |-> f[2], num_results |-> num_results, offset |-> offset],
                    provide_transaction(db, h))

ListDocuments ==
    Idle /\ \E corpus_name \in ListedCorpora, num_results \in Limits, offset \in Offsets :
        \E h \in get_documents(db, corpus_name, num_results, offset) :
            Respond("get_documents",
                    [corpus_name |-> corpus_name, num_results |-> num_results,
                     offset |-> offset],
                    provide_transaction(db, h))

ListQRels ==
    Idle /\ \E corpus_name \in ListedCorpora, f \in QRelFilters,
               num_results \in Limits, offset \in Offsets :
        \E h \in get_qrels(db, corpus_name, f[1], f[2], f[3], num_results, offset) :
            Respond("get_qrels",
                    [corpus_name |-> corpus_name, document_id |-> f[1],
                     dataset_name |-> f[2], query_id |-> f[3],
                     num_results |-> num_results, offset |-> offset],
                    provide_transaction(db, h))

Search ==
    Idle /\ \E q \in SearchTerms, language \in LanguageInputs, corpus_name \in CorpusFilters,
               num_results \in Limits, offset \in Offsets :
        \E h \in search_documents(db, q, language, corpus_name, num_results, offset) :
            Respond("search_documents",
                    [q |-> q, language |-> language, corpus_name |-> corpus_name,
                     num_results |-> num_results, offset |-> offset],
                    provide_transaction(db, h))

\* the response is sent; the next request may arrive
ReturnResponse ==
    /\ ~Idle
    /\ resp' = [op |-> "none", status |-> "OK", args |-> [corpus_name |-> NULL],
                out |-> NoOut]
    /\ before' = db
    /\ UNCHANGED <<db, tx>>

----------------------------------------------------------------------------

\* no table holds a row
NoRows == [corpora |-> {}, datasets |-> {}, documents |-> {}, queries |-> {}, qrels |-> {}]

Txs == 1..MaxTx

\* a transaction slot no request is using
IdleTx ==
    [op |-> "none", pc |-> "idle", args |-> [corpus_name |-> NULL, dataset_name |-> NULL,
                                             language |-> NULL, data |-> <<>>],
     ins |-> NoRows, del |-> NoRows, corpus |-> {}, raised |-> "none", exc |-> "none",
     status |-> "none"]

Init ==
    /\ db = NoRows
    /\ resp = [op |-> "none", status |-> "OK", args |-> [corpus_name |-> NULL],
               out |-> NoOut]
    /\ before = db
    /\ tx = [t \in Txs |-> IdleTx]

Next ==
    \/ CreateCorpus
    \/ CreateDataset
    \/ InsertQueries
    \/ InsertDocuments
    \/ InsertQRels
    \/ RemoveDataset
    \/ RemoveCorpus
    \/ GetQuery
    \/ GetDocument
    \/ ListCorpora
    \/ ListQueries
    \/ ListDocuments
    \/ ListQRels
    \/ Search
    \/ ReturnResponse

Spec == Init /\ [][Next]_vars

----------------------------------------------------------------------------
(* Concurrent requests.  Each request runs its handler statement by        *)
(* statement in a transaction of its own.  A statement works on the        *)
(* committed rows and the transaction's own uncommitted writes; the engine *)
(* makes it wait while it touches a row that another open transaction has  *)
(* written or whose key another open transaction's insert refers to, and   *)
(* checks keys and references when the statement runs.                     *)

\* the requests issued concurrently
TxCorpusNames == {"c1"}
TxDatasetNames == {"s1"}
TxLanguages == Languages
TxDocumentBatches ==
    {<<[id |-> i, text |-> <<"fox">>]>> : i \in DocIds}
        \cup {<<[id |-> "d1", text |-> <<"fox">>], [id |-> "d2", text |-> <<"fox">>]>>}
TxQueryBatches == {<<[id |-> i, text |-> <<"fox">>]>> : i \in QueryIds}
TxQRelBatches == {<<[query_id |-> "q1", document_id |-> "d1", relevance |-> 1]>>}

\* the tables d with the rows del removed and the rows ins added
ApplyWrites(d, ins, del) ==
    [corpora |-> (d.corpora \ del.corpora) \cup ins.corpora,
     datasets |-> (d.datasets \ del.datasets) \cup ins.datasets,
     documents |-> (d.documents \ del.documents) \cup ins.documents,
     queries |-> (d.queries \ del.queries) \cup ins.queries,
     qrels |-> (d.qrels \ del.qrels) \cup ins.qrels]

\* the rows of a that are not rows of b
RowsMinus(a, b) ==
    [corpora |-> a.corpora \ b.corpora, datasets |-> a.datasets \ b.datasets,
     documents |-> a.documents \ b.documents, queries |-> a.queries \ b.queries,
     qrels |-> a.qrels \ b.qrels]

\* the tables transaction t reads and writes
View(t) == ApplyWrites(db, tx[t].ins, tx[t].del)

\* some row of ch references, by a foreign key, some row of pa
References(ch, pa) ==
    \/ \E s \in ch.datasets, c \in pa.corpora : s.corpus = c.name
    \/ \E x \in ch.documents, c \in pa.corpora : x.corpus = c.name
    \/ \E q \in ch.queries, s \in pa.datasets : q.corpus = s.corpus /\ q.dataset = s.name
    \/ \E r \in ch.qrels, s \in pa.datasets : r.corpus = s.corpus /\ r.dataset = s.name
    \/ \E r \in ch.qrels, q \in pa.queries :
          r.corpus = q.corpus /\ r.dataset = q.dataset /\ r.query_id = q.id
    \/ \E r \in ch.qrels, x \in pa.documents : r.corpus = x.corpus /\ r.document_id = x.id

\* some row of a has the key of some row of b
SameKey(a, b) ==
    \/ \E c \in a.corpora : CorpusNameTaken(b, c.name)
    \/ \E s \in a.datasets : DatasetKeyTaken(b, s.corpus, s.name)
    \/ \E x \in a.documents : DocumentKeyTaken(b, x.corpus, x.id)
    \/ \E q \in a.queries : QueryKeyTaken(b, q.corpus, q.dataset, q.id)
    \/ \E r \in a.qrels : QRelKeyTaken(b, r.corpus, r.dataset, r.query_id, r.document_id)

\* the statement of transaction t that inserts the rows R and deletes among the
\* rows G waits for another open transaction
LockWait(t, R, G) ==
    \E u \in Txs \ {t} :
        \/ SameKey(G, tx[u].del)
        \/ References(tx[u].ins, G)
        \/ References(tx[u].del, G)
        \/ References(R, tx[u].del)
        \/ SameKey(R, tx[u].ins)
        \/ SameKey(R, tx[u].del)

\* the statement transaction x has reached, run on the tables d: [exc, db]
Statement(x, d) ==
    LET a == x.args IN
    CASE x.pc = "insert_corpus" -> ExecInsertCorpus(d, a.corpus_name, a.language)
      [] x.pc = "insert_dataset" -> ExecInsertDataset(d, a.dataset_name, a.corpus_name, 1)
      [] x.pc = "insert_documents" -> ExecInsertDocuments(d, a.corpus_name, a.data)
      [] x.pc = "insert_queries" ->
            ExecInsertQueries(d, a.dataset_name, a.corpus_name, a.data)
      [] x.pc = "insert_qrels" -> ExecInsertQRels(d, a.dataset_name, a.corpus_name, a.data)
      [] x.pc = "sql_del_qrels" ->
            sql_del_qrels(d, dataset_cte(d, a.dataset_name, a.corpus_name))
      [] x.pc = "sql_del_queries" ->
            sql_del_queries(d, dataset_cte(d, a.dataset_name, a.corpus_name))
      [] x.pc = "sql_del_dataset" ->
            sql_del_dataset(d, dataset_cte(d, a.dataset_name, a.corpus_name))
      [] x.pc = "sql_corpus" ->
            IF corpus_cte(d, a.corpus_name) = {} THEN Raise("NoResultFound", d) ELSE Ok(d)
      \* filter_by(corpus_id=corpus.id): no row has the id of a corpus that is gone
      [] x.pc = "sql_del_documents" ->
            IF x.corpus # {} /\ x.corpus \subseteq d.corpora THEN sql_del_documents(d, TheRow(x.corpus))
            ELSE Ok(d)
      [] x.pc = "sql_del_corpus" ->
            IF x.corpus # {} /\ x.corpus \subseteq d.corpora THEN sql_del_corpus(d, TheRow(x.corpus))
            ELSE Ok(d)

\* the rows the delete statement transaction x has reached selects in the tables d
Targets(x, d) ==
    LET a == x.args
        dataset_id == dataset_cte(d, a.dataset_name, a.corpus_name)
    IN  CASE x.pc = "sql_del_qrels" ->
                [NoRows EXCEPT !.qrels = RowsMinus(d, sql_del_qrels(d, dataset_id).db).qrels]
          [] x.pc = "sql_del_queries" ->
                [NoRows EXCEPT !.queries =
                    {q \in d.queries : \E s \in dataset_id :
                                          q.corpus = s.corpus /\ q.dataset = s.name}]
          [] x.pc = "sql_del_dataset" -> [NoRows EXCEPT !.datasets = dataset_id]
          [] x.pc = "sql_del_documents" ->
                [NoRows EXCEPT !.documents =
                    {y \in d.documents : \E c \in x.corpus \cap d.corpora : y.corpus = c.name}]
          [] x.pc = "sql_del_corpus" -> [NoRows EXCEPT !.corpora = x.corpus \cap d.corpora]
          [] OTHER -> NoRows

\* the statement a handler runs after the statement pc
NextPc(pc) ==
    CASE pc = "sql_del_qrels" -> "sql_del_queries"
      [] pc = "sql_del_queries" -> "sql_del_dataset"
      [] pc = "sql_corpus" -> "sql_del_documents"
      [] pc = "sql_del_documents" -> "sql_del_corpus"
      [] OTHER -> "return"

\* the exception that leaves handler op when its statement at pc raises e
Caught(op, pc, e) ==
    IF e = "IntegrityError" /\ op # "remove_dataset" /\ pc # "sql_corpus"
    THEN "HTTPException409"
    ELSE IF e = "ProgrammingError" /\ op = "create_corpus" THEN "HTTPException409"
    ELSE e

\* a request arrives on a free slot: its transaction begins at the handler's first
\* statement
Begin(t, op, pc, corpus_name, dataset_name, language, data) ==
    /\ tx[t].pc = "idle"
    /\ tx' = [tx EXCEPT ![t] = [IdleTx EXCEPT !.op = op, !.pc = pc,
                  !.args = [corpus_name |-> corpus_name, dataset_name |-> dataset_name,
                            language |-> language, data |-> data]]]
    /\ UNCHANGED <<db, resp, before>>

TxCreateCorpus ==
    \E t \in Txs, c \in TxCorpusNames, language \in TxLanguages :
        Begin(t, "create_corpus", "insert_corpus", c, NULL, language, <<>>)

TxCreateDataset ==
    \E t \in Txs, c \in TxCorpusNames, s \in TxDatasetNames :
        Begin(t, "create_dataset", "insert_dataset", c, s, NULL, <<>>)

TxInsertDocuments ==
    \E t \in Txs, c \in TxCorpusNames, data \in TxDocumentBatches :
        Begin(t, "add_documents", "insert_documents", c, NULL, NULL, data)

TxInsertQueries ==
    \E t \in Txs, c \in TxCorpusNames, s \in TxDatasetNames, data \in TxQueryBatches :
        Begin(t, "add_queries", "insert_queries", c, s, NULL, data)

TxInsertQRels ==
    \E t \in Txs, c \in TxCorpusNames, s \in TxDatasetNames, data \in TxQRelBatches :
        Begin(t, "add_qrels", "insert_qrels", c, s, NULL, data)

TxRemoveDataset ==
    \E t \in Txs, c \in TxCorpusNames, s \in TxDatasetNames :
        Begin(t, "remove_dataset", "sql_del_qrels", c, s, NULL, <<>>)

TxRemoveCorpus ==
    \E t \in Txs, c \in TxCorpusNames : Begin(t, "remove_corpus", "sql_corpus", c, NULL, NULL, <<>>)

\* transaction t runs the statement it has reached
Execute(t) ==
    LET x == tx[t]
        d == View(t)
        r == Statement(x, d)
        R == IF r.exc = "none" THEN RowsMinus(r.db, d) ELSE NoRows
    IN  /\ x.pc \notin {"idle", "return", "done"}
        /\ ~LockWait(t, R, Targets(x, d))
        /\ IF r.exc # "none"
           THEN tx' = [tx EXCEPT ![t].raised = r.exc, ![t].exc = Caught(x.op, x.pc, r.exc),
                                 ![t].pc = "return"]
           ELSE IF x.pc = "sql_corpus"
           THEN \* corpus = ....scalar_one(); if len(corpus.datasets) > 0: raise
                IF Cardinality(DatasetsOf(d, x.args.corpus_name)) > 0
                THEN tx' = [tx EXCEPT ![t].exc = "HTTPException409", ![t].pc = "return"]
                ELSE tx' = [tx EXCEPT ![t].corpus = corpus_cte(d, x.args.corpus_name),
                                      ![t].pc = NextPc(x.pc)]
           ELSE tx' = [tx EXCEPT ![t].ins = RowsMinus(r.db, db),
                                 ![t].del = RowsMinus(db, r.db),
                                 ![t].pc = NextPc(x.pc)]
        /\ UNCHANGED <<db, resp, before>>

TxExecute == \E t \in Txs : Execute(t)

\* the handler of transaction t has returned or raised: provide_transaction commits
\* or rolls back, and the response is determined
Finish(t) ==
    LET x == tx[t]
        p == provide_transaction(db, [exc |-> x.exc, db |-> View(t), out |-> NoOut])
        gone == RowsMinus(db, p.db).corpora
    IN  /\ x.pc = "return"
        /\ db' = p.db
        /\ tx' = [u \in Txs |->
                    IF u = t THEN [x EXCEPT !.pc = "done", !.status = p.status]
                    \* the corpus another request has loaded is deleted: its id is gone
                    ELSE [tx[u] EXCEPT !.corpus = @ \ gone]]
        /\ UNCHANGED <<resp, before>>

TxFinish == \E t \in Txs : Finish(t)

\* the response of transaction t is sent; its slot is free
TxReturn ==
    \E t \in Txs :
        /\ tx[t].pc = "done"
        /\ tx' = [tx EXCEPT ![t] = IdleTx]
        /\ UNCHANGED <<db, resp, before>>

ConcNext ==
    \/ TxCreateCorpus
    \/ TxCreateDataset
    \/ TxInsertDocuments
    \/ TxInsertQueries
    \/ TxInsertQRels
    \/ TxRemoveDataset
    \/ TxRemoveCorpus
    \/ TxExecute
    \/ TxFinish
    \/ TxReturn

ConcSpec == Init /\ [][ConcNext]_vars

\* the keys of the structured context (extra) of the error response of the request
\* of transaction x
ErrorContext(x) ==
    IF x.exc = "HTTPException409"
    THEN CASE x.op = "create_corpus" -> {"corpus_name", "error_code"}
           [] x.op = "create_dataset" -> {"name", "corpus_name", "error_code"}
           [] x.op \in {"add_queries", "add_documents", "add_qrels"} -> {"error_code"}
           [] x.op = "remove_corpus" ->
                 IF x.raised = "IntegrityError" THEN {"corpus_name", "error_code"}
                 ELSE {"corpus_name"}
           [] OTHER -> {}
    \* ClientException(status_code=HTTP_409_CONFLICT, detail=str(exc))
    ELSE {}

----------------------------------------------------------------------------
(* Properties *)

\* the batches the insert requests are sent with
DocumentBatches == SeqsUpTo(DocumentInfos, MaxBatch)
QueryBatches == SeqsUpTo(QueryInfos, MaxBatch)
QRelBatches == SeqsUpTo(QRelInfos, MaxBatch)

\* a batch with at least one invalid record: the parent does not resolve, a record
\* repeats a stored key or a key of the batch, or a QRel references a missing row
DocumentBatchInvalid(d, corpus_name, data) ==
    \/ ~CorpusNameTaken(d, corpus_name)
    \/ \E i \in 1..Len(data) : DocumentKeyTaken(d, corpus_name, data[i].id)
    \/ BatchRepeatsKey([i \in 1..Len(data) |-> data[i].id])

QueryBatchInvalid(d, dataset_name, corpus_name, data) ==
    \/ ~DatasetKeyTaken(d, corpus_name, dataset_name)
    \/ \E i \in 1..Len(data) : QueryKeyTaken(d, corpus_name, dataset_name, data[i].id)
    \/ BatchRepeatsKey([i \in 1..Len(data) |-> data[i].id])

QRelBatchInvalid(d, dataset_name, corpus_name, data) ==
    \/ ~DatasetKeyTaken(d, corpus_name, dataset_name)
    \/ \E i \in 1..Len(data) :
          \/ QRelKeyTaken(d, corpus_name, dataset_name, data[i].query_id, data[i].document_id)
          \/ ~QueryKeyTaken(d, corpus_name, dataset_name, data[i].query_id)
          \/ ~DocumentKeyTaken(d, corpus_name, data[i].document_id)
    \/ BatchRepeatsKey([i \in 1..Len(data) |-> <<data[i].query_id, data[i].document_id>>])

\* the request is answered with Conflict and the committed tables are as before
Rejected(t) == t.status = "Conflict" /\ t.db = db

\* C1: whenever a request may arrive, each of InsertDocuments, InsertQueries and
\* InsertQRels, called with any batch that holds at least one invalid record,
\* returns Conflict and commits tables equal to those before the call.
C1_AtomicBatchInsert ==
    Idle =>
        /\ \A corpus_name \in CorpusNames, data \in DocumentBatches :
              DocumentBatchInvalid(db, corpus_name, data)
                  => Rejected(provide_transaction(db, add_documents(db, corpus_name, data)))
        /\ \A dataset_name \in DatasetNames, corpus_name \in CorpusNames, data \in QueryBatches :
              QueryBatchInvalid(db, dataset_name, corpus_name, data)
                  => Rejected(provide_transaction(db,
                                  add_queries(db, dataset_name, corpus_name, data)))
        /\ \A dataset_name \in DatasetNames, corpus_name \in CorpusNames, data \in QRelBatches :
              QRelBatchInvalid(db, dataset_name, corpus_name, data)
                  => Rejected(provide_transaction(db,
                                  add_qrels(db, dataset_name, corpus_name, data)))

\* an InsertDocuments request was answered with Conflict while its corpus exists and
\* holds a document: the batch repeated a key
C1_Witness ==
    /\ resp.op = "add_documents" /\ resp.status = "Conflict"
    /\ CorpusNameTaken(before, resp.args.corpus_name)
    /\ \E x \in db.documents : x.corpus = resp.args.corpus_name

\* C2: RemoveCorpus on a corpus that owns at least one dataset is answered with
\* Conflict, and the corpus, its datasets and its documents are as before the call.
C2_CascadeGuard ==
    (resp.op = "remove_corpus" /\ DatasetsOf(before, resp.args.corpus_name) # {})
        => /\ resp.status = "Conflict"
           /\ db.corpora = before.corpora
           /\ db.datasets = before.datasets
           /\ db.documents = before.documents

\* RemoveCorpus was refused for a corpus that owns a dataset and a document
C2_Witness ==
    /\ resp.op = "remove_corpus" /\ resp.status = "Conflict"
    /\ DatasetsOf(before, resp.args.corpus_name) # {}
    /\ \E x \in db.documents : x.corpus = resp.args.corpus_name

\* the rows of dataset (corpus_name, dataset_name)
OfDataset(row, corpus_name, dataset_name) ==
    row.corpus = corpus_name /\ row.dataset = dataset_name

\* C3: RemoveDataset(corpus, dataset) succeeds; afterwards the dataset, its queries
\* and its QRels are gone, and every other dataset (of the same or of another
\* corpus, also one of the same name), its queries and QRels, all documents and all
\* corpora are as before.
C3_RemoveDatasetCascade ==
    resp.op = "remove_dataset"
        => LET c == resp.args.corpus_name
               s == resp.args.dataset_name
           IN  /\ resp.status = "OK"
               /\ db.datasets = {x \in before.datasets : ~(x.corpus = c /\ x.name = s)}
               /\ db.queries = {q \in before.queries : ~OfDataset(q, c, s)}
               /\ db.qrels = {r \in before.qrels : ~OfDataset(r, c, s)}
               /\ db.documents = before.documents
               /\ db.corpora = before.corpora

\* a dataset with a query and a QRel was removed while a dataset of the same name in
\* another corpus, with a query of its own, stays
C3_Witness ==
    /\ resp.op = "remove_dataset" /\ resp.status = "OK"
    /\ \E q \in before.queries : OfDataset(q, resp.args.corpus_name, resp.args.dataset_name)
    /\ \E r \in before.qrels : OfDataset(r, resp.args.corpus_name, resp.args.dataset_name)
    /\ \E q \in db.queries :
          q.corpus # resp.args.corpus_name /\ q.dataset = resp.args.dataset_name

\* the QRels at or above the min_relevance of their own dataset
RelevantQRels(d) ==
    {r \in d.qrels : \E s \in DatasetOf(d, r) : r.relevance >= s.min_relevance}

BelowThreshold(d) == d.qrels \ RelevantQRels(d)

Items(r) == Range(r.out.items)

\* C4: a QRel below the min_relevance of its dataset adds to no relevant count of
\* ListDocuments or ListQueries (each count is the number of the document's or
\* query's QRels at or above the threshold) and ListQRels neither returns it nor
\* counts it in total.
C4_ThresholdCorrectness ==
    /\ (resp.op = "get_documents" /\ resp.status = "OK")
          => \A it \in Items(resp) :
                it.num_relevant_queries =
                    Cardinality({r \in RelevantQRels(db) :
                        r.corpus = it.corpus_name /\ r.document_id = it.id})
    /\ (resp.op = "get_queries" /\ resp.status = "OK")
          => \A it \in Items(resp) :
                it.num_relevant_documents =
                    Cardinality({r \in RelevantQRels(db) :
                        /\ OfDataset(r, it.corpus_name, it.dataset_name)
                        /\ r.query_id = it.id})
    /\ (resp.op = "get_qrels" /\ resp.status = "OK")
          => /\ \A it \in Items(resp) :
                   ~\E r \in BelowThreshold(db) :
                       /\ OfDataset(r, it.corpus_name, it.dataset_name)
                       /\ r.query_id = it.query_id /\ r.document_id = it.document_id
             /\ resp.out.total =
                   Cardinality({r \in RelevantQRels(db) :
                       /\ r.corpus = resp.args.corpus_name
                       /\ resp.args.document_id # NULL => r.document_id = resp.args.document_id
                       /\ resp.args.dataset_name # NULL => r.dataset = resp.args.dataset_name
                       /\ resp.args.query_id # NULL => r.query_id = resp.args.query_id})

\* ListQRels for a dataset with min_relevance 2 that holds only one QRel, of
\* relevance 1, returned total 0
C4_Witness ==
    /\ resp.op = "get_qrels" /\ resp.status = "OK"
    /\ resp.args.dataset_name # NULL
    /\ \E s \in db.datasets :
          /\ s.corpus = resp.args.corpus_name /\ s.name = resp.args.dataset_name
          /\ s.min_relevance = 2
          /\ \E r \in db.qrels :
                /\ {x \in db.qrels : OfDataset(x, s.corpus, s.name)} = {r}
                /\ r.relevance = 1
    /\ resp.args.document_id = NULL /\ resp.args.query_id = NULL
    /\ resp.out.total = 0 /\ resp.out.items = <<>>

\* the number of QRels that reference document (corpus_name, id) and are at or above
\* the min_relevance of their own dataset
RelevantQRelsOfDocument(d, corpus_name, id) ==
    Cardinality({r \in RelevantQRels(d) : r.corpus = corpus_name /\ r.document_id = id})

\* C5: the count GetDocument annotates a document with is the number of QRels that
\* reference the document in its corpus at or above the min_relevance of the QRel's
\* dataset, and it is the count ListDocuments reports for the document.
C5_GetDocumentCount ==
    (resp.op = "get_document" /\ resp.status = "OK")
        => \A it \in Items(resp) :
              /\ it.num_relevant_queries =
                    RelevantQRelsOfDocument(db, resp.args.corpus_name, resp.args.document_id)
              /\ \A h \in get_documents(db, resp.args.corpus_name, None, 0) :
                    \A lt \in Range(h.out.items) :
                        lt.id = it.id => lt.num_relevant_queries = it.num_relevant_queries

\* the totals and pages a listing returns for each limit and offset
SameTotalAndEmptyPastEnd(outcomes(_, _)) ==
    \A h0 \in outcomes(None, 0) :
        \A num_results \in Limits, offset \in Offsets :
            \A h \in outcomes(num_results, offset) :
                /\ h.exc = "none"
                /\ h.out.total = h0.out.total
                /\ offset > h.out.total => h.out.items = <<>>

\* C6: whenever a request may arrive, every listing (Search, ListQueries,
\* ListDocuments, ListQRels) with fixed filter arguments returns the same total for
\* every limit and offset, and a call whose offset exceeds the total returns an empty
\* page and no error.
C6_TotalIndependentOfPage ==
    Idle =>
        /\ \A corpus_name \in CorpusNames :
              LET outcomes(n, o) == get_documents(db, corpus_name, n, o)
              IN  SameTotalAndEmptyPastEnd(outcomes)
        /\ \A corpus_name \in CorpusNames, f \in QueryFilters :
              LET outcomes(n, o) == get_queries(db, corpus_name, f[1], f[2], n, o)
              IN  SameTotalAndEmptyPastEnd(outcomes)
        /\ \A corpus_name \in CorpusNames, f \in QRelFilters :
              LET outcomes(n, o) == get_qrels(db, corpus_name, f[1], f[2], f[3], n, o)
              IN  SameTotalAndEmptyPastEnd(outcomes)
        /\ \A q \in SearchTerms, language \in Languages, corpus_name \in CorpusFilters :
              LET outcomes(n, o) == search_documents(db, q, language, corpus_name, n, o)
              IN  SameTotalAndEmptyPastEnd(outcomes)

\* ListDocuments was asked for an offset past a total of at least one and returned
\* an empty page with that total
C6_Witness ==
    /\ resp.op = "get_documents" /\ resp.status = "OK"
    /\ resp.out.total >= 1
    /\ resp.args.offset > resp.out.total
    /\ resp.out.items = <<>>
    /\ DatasetsOf(db, resp.args.corpus_name) # {}

\* the sequences obtained by concatenating one page of each offset 0..k
RECURSIVE Concatenations(_, _)
Concatenations(pages, k) ==
    IF k < 0 THEN {<<>>}
    ELSE {a \o b : a \in Concatenations(pages, k - 1), b \in pages[k]}

NoDuplicates(seq) == \A i, j \in 1..Len(seq) : seq[i] = seq[j] => i = j

\* pages of one item each, fetched by separate calls, concatenate to the whole result
PagesReproduce(outcomes(_, _)) ==
    LET pages == [o \in Offsets |-> {h.out.items : h \in outcomes(Some(1), o)}]
    IN  \A whole \in outcomes(None, 0) :
            \A cat \in Concatenations(pages, MaxOffset) :
                /\ NoDuplicates(cat)
                /\ Range(cat) = Range(whole.out.items)
                /\ Len(cat) = whole.out.total

\* C7: whenever a request may arrive, for every listing the pages fetched by
\* separate calls that step the offset by the limit concatenate to the whole
\* unpaginated result, with no item twice and none left out, and the number of
\* items equals the total.
C7_PagesReproduceResult ==
    Idle =>
        /\ \A corpus_name \in CorpusNames :
              LET outcomes(n, o) == get_documents(db, corpus_name, n, o)
              IN  PagesReproduce(outcomes)
        /\ \A corpus_name \in CorpusNames, f \in QueryFilters :
              LET outcomes(n, o) == get_queries(db, corpus_name, f[1], f[2], n, o)
              IN  PagesReproduce(outcomes)
        /\ \A corpus_name \in CorpusNames, f \in QRelFilters :
              LET outcomes(n, o) == get_qrels(db, corpus_name, f[1], f[2], f[3], n, o)
              IN  PagesReproduce(outcomes)
        /\ \A q \in SearchTerms, language \in Languages, corpus_name \in CorpusFilters :
              LET outcomes(n, o) == search_documents(db, q, language, corpus_name, n, o)
              IN  PagesReproduce(outcomes)

\* C8: GetDocument returns the document exactly when a document of that id is in
\* that corpus and answers NotFound otherwise; GetQuery returns the query exactly
\* when it is in that dataset of that corpus and answers NotFound otherwise.
C8_PointLookups ==
    /\ resp.op = "get_document"
          => IF DocumentKeyTaken(db, resp.args.corpus_name, resp.args.document_id)
             THEN resp.status = "OK" /\ \A it \in Items(resp) : it.id = resp.args.document_id
             ELSE resp.status = "NotFound"
    /\ resp.op = "get_query"
          => IF QueryKeyTaken(db, resp.args.corpus_name, resp.args.dataset_name,
                              resp.args.query_id)
             THEN resp.status = "OK" /\ \A it \in Items(resp) : it.id = resp.args.query_id
             ELSE resp.status = "NotFound"

\* C9: whenever a request may arrive, a search with a fixed query text and corpus
\* filter has one possible result: the hits sorted by score descending, ties broken
\* by document id ascending, is a total order of the matched documents.
C9_SearchDeterminism ==
    Idle =>
        \A q \in SearchTerms, language \in Languages, corpus_name \in CorpusFilters :
            \A h1, h2 \in search_documents(db, q, language, corpus_name, None, 0) :
                h1.out.items = h2.out.items

\* C10: a request that fails reports Conflict, NotFound or InvalidArgument.
C10_TypedErrors ==
    resp.status \in {"OK", "Conflict", "NotFound", "InvalidArgument"}

\* C11: in every reachable state every stored QRel references a query of its own
\* dataset and a document of the corpus of that dataset, its dataset exists, and no
\* two QRels of one dataset have the same (query, document) pair.
C11_QRelReferentialIntegrity ==
    \A r \in db.qrels :
        /\ DatasetKeyTaken(db, r.corpus, r.dataset)
        /\ \E q \in db.queries : OfDataset(q, r.corpus, r.dataset) /\ q.id = r.query_id
        /\ \E x \in db.documents : x.corpus = r.corpus /\ x.id = r.document_id
        /\ \A r2 \in db.qrels :
              (/\ OfDataset(r2, r.corpus, r.dataset)
               /\ r2.query_id = r.query_id /\ r2.document_id = r.document_id) => r2 = r

\* an InsertQRels request was rejected while the store holds a QRel, and the store
\* holds the same document id in a second corpus that the QRel does not reference
C11_Witness ==
    /\ resp.op = "add_qrels" /\ resp.status = "Conflict"
    /\ \E r \in db.qrels :
          /\ OfDataset(r, resp.args.corpus_name, resp.args.dataset_name)
          /\ \E x \in db.documents : x.corpus # r.corpus /\ x.id = r.document_id

\* transaction t ends in this step: its handler has left and the response is set
Ends(t) == tx[t].pc = "return" /\ tx'[t].pc = "done"

\* C12: when a statement of a request raised an integrity violation, the step that
\* ends the request's transaction commits none of the request's writes (the
\* committed tables stay as they are) and the response is Conflict; when no
\* statement failed and the handler returned, that one step commits all writes of
\* the request.
C12_RollbackOnIntegrityError ==
    [][\A t \in Txs :
          Ends(t) =>
             /\ tx[t].raised = "IntegrityError"
                   => db' = db /\ tx'[t].status = "Conflict"
             /\ tx[t].exc = "none"
                   => db' = ApplyWrites(db, tx[t].ins, tx[t].del) /\ tx'[t].status = "OK"]_vars

\* a RemoveDataset request had deleted queries of its dataset when its delete of the
\* dataset raised an integrity violation; it was answered Conflict and the queries
\* are in the committed tables
C12_Witness ==
    \E t \in Txs :
        /\ tx[t].pc = "done" /\ tx[t].op = "remove_dataset"
        /\ tx[t].raised = "IntegrityError" /\ tx[t].status = "Conflict"
        /\ tx[t].del.queries # {}
        /\ tx[t].del.queries \subseteq db.queries

\* C18: under every interleaving of concurrent requests, each in its own
\* transaction, the committed tables never hold a dataset or a document whose corpus
\* is not in them, and the step that ends a RemoveCorpus request with an error
\* leaves the committed documents as they are.
C18_RemoveCorpusConcurrent ==
    /\ [](/\ \A s \in db.datasets : CorpusNameTaken(db, s.corpus)
          /\ \A x \in db.documents : CorpusNameTaken(db, x.corpus))
    /\ [][\A t \in Txs :
             (Ends(t) /\ tx[t].op = "remove_corpus" /\ tx'[t].status # "OK")
                 => db'.documents = db.documents]_vars

\* a RemoveCorpus request had deleted the documents of its corpus when a concurrent
\* CreateDataset committed a dataset of the corpus; the delete of the corpus raised,
\* the request was answered Conflict and the documents are in the committed tables
C18_Witness ==
    \E t \in Txs :
        /\ tx[t].pc = "done" /\ tx[t].op = "remove_corpus"
        /\ tx[t].raised = "IntegrityError" /\ tx[t].status = "Conflict"
        /\ tx[t].del.documents # {}
        /\ tx[t].del.documents \subseteq db.documents
        /\ DatasetsOf(db, tx[t].args.corpus_name) # {}

\* the language of the corpus named corpus_name in the tables d
LanguageOf(d, corpus_name) == {c.language : c \in corpus_cte(d, corpus_name)}

\* C13: the statement of InsertDocuments gives every document it inserts the
\* language the request's corpus has in the tables the statement runs on, the same
\* for all records of the batch; and no step, of this or of any other request,
\* changes the language of a document that stays in the committed tables or in a
\* transaction's writes.
C13_LanguageSnapshot ==
    [][/\ \A t \in Txs :
             \A x \in tx'[t].ins.documents \ tx[t].ins.documents :
                 /\ {x.language} = LanguageOf(View(t), tx[t].args.corpus_name)
                 /\ tx[t].pc = "insert_documents"
       /\ \A x \in db.documents, y \in db'.documents :
             (x.corpus = y.corpus /\ x.id = y.id) => y.language = x.language
       /\ \A x \in db'.documents \ db.documents :
             \E t \in Txs : Ends(t) /\ x \in tx[t].ins.documents]_vars

\* an InsertDocuments request with a batch of two records has committed its
\* documents to a corpus whose language is not the default, and both carry that
\* language
C13_Witness ==
    \E t \in Txs :
        /\ tx[t].pc = "done" /\ tx[t].op = "add_documents" /\ tx[t].status = "OK"
        /\ Len(tx[t].args.data) = 2
        /\ Cardinality(tx[t].ins.documents) = 2
        /\ tx[t].ins.documents \subseteq db.documents
        /\ \A x \in tx[t].ins.documents : x.language = "simple"

\* C14: CreateDataset(name, corpusName, minRelevance) is answered Conflict, with the
\* tables as before, when no corpus has the name corpusName or a dataset (corpus,
\* name) is stored; otherwise it is answered OK and adds exactly one dataset, of that
\* name and owned by that corpus, whether or not another corpus has a dataset of the
\* same name.
C14_CreateDataset ==
    resp.op = "create_dataset"
        => LET c == resp.args.corpus_name
               s == resp.args.dataset_name
           IN  IF ~CorpusNameTaken(before, c) \/ DatasetKeyTaken(before, c, s)
               THEN resp.status = "Conflict" /\ db = before
               ELSE /\ resp.status = "OK"
                    /\ \E m \in MinRelevances :
                          db = [before EXCEPT !.datasets =
                                   @ \cup {[corpus |-> c, name |-> s, min_relevance |-> m]}]
                    /\ Cardinality(db.datasets) = Cardinality(before.datasets) + 1

\* CreateDataset succeeded for a name that a dataset of another corpus already has
C14_Witness ==
    /\ resp.op = "create_dataset" /\ resp.status = "OK"
    /\ \E s \in before.datasets :
          s.name = resp.args.dataset_name /\ s.corpus # resp.args.corpus_name
    /\ DatasetKeyTaken(db, resp.args.corpus_name, resp.args.dataset_name)

\* C15: the response of every request answered Conflict or NotFound carries context
\* that names the corpus of the request and, when the request names one, its
\* dataset; a Conflict response also carries the code of the underlying violation.
C15_ErrorContext ==
    \A t \in Txs :
        (tx[t].pc = "done" /\ tx[t].status \in {"Conflict", "NotFound"})
            => /\ "corpus_name" \in ErrorContext(tx[t])
               /\ tx[t].args.dataset_name # NULL
                     => ErrorContext(tx[t]) \cap {"dataset_name", "name"} # {}
               /\ tx[t].status = "Conflict" => "error_code" \in ErrorContext(tx[t])

\* C16: GetQuery(corpus, dataset, id) reports the number of QRels of that query in
\* that dataset whose relevance is at least the dataset's min_relevance, counting no
\* QRel of a query of the same id in another dataset or corpus, and the number is
\* the one ListQueries reports for the query.
C16_GetQueryCount ==
    (resp.op = "get_query" /\ resp.status = "OK")
        => \A it \in Items(resp) :
              /\ it.num_relevant_documents =
                    Cardinality({r \in RelevantQRels(db) :
                        /\ OfDataset(r, resp.args.corpus_name, resp.args.dataset_name)
                        /\ r.query_id = resp.args.query_id})
              /\ \A h \in get_queries(db, resp.args.corpus_name, resp.args.dataset_name,
                                      NULL, None, 0) :
                    \A lt \in Range(h.out.items) :
                        lt.id = it.id => lt.num_relevant_documents = it.num_relevant_documents

\* C17: get_corpora returns exactly one entry for every stored corpus, and the
\* num_datasets of each entry is the number of datasets the corpus owns.
C17_CorporaListing ==
    resp.op = "get_corpora"
        => /\ resp.status = "OK"
           /\ {it.name : it \in Items(resp)} = {c.name : c \in db.corpora}
           /\ Len(resp.out.items) = Cardinality(db.corpora)
           /\ \A it \in Items(resp) :
                 it.num_datasets = Cardinality(DatasetsOf(db, it.name))

====
